---- MODULE Spec2Model ----
(***************************************************************************)
(* A model of web_service.py: the module-level session state kept in the   *)
(* constants module, the HTTP requests each function issues, and the        *)
(* squad-diff computation of create_transfers_object.                       *)
(***************************************************************************)
EXTENDS Integers, Sequences, FiniteSets, TLC

VARIABLES
    SQUAD_ID,           \* constants.SQUAD_ID
    NEXT_EVENT,         \* constants.NEXT_EVENT
    SQUAD_URL,          \* constants.SQUAD_URL, a sequence of string pieces
    TRANSFER_DEADLINE,  \* constants.TRANSFER_DEADLINE
    op,                 \* the function that ran last
    oldSquad,           \* its old_squad argument, for create_transfers_object
    newSquad,           \* its new_squad argument, for create_transfers_object
    outcome,            \* what create_transfers_object returned or raised
    submitted,          \* its transfer_object argument, for make_transfers
    sent,               \* the HTTP requests the last function issued, in order
    received,           \* the response to each of them
    result,             \* the response object the last function returned
    raised,             \* the exception the last function raised, or "none"
    login_status,       \* the status code of its login POST, for login
    logins,             \* how many times login has run
    remembered          \* an earlier create_transfers_object call, kept for comparison

session == <<SQUAD_ID, NEXT_EVENT, SQUAD_URL, TRANSFER_DEADLINE>>

vars == <<SQUAD_ID, NEXT_EVENT, SQUAD_URL, TRANSFER_DEADLINE, op, oldSquad,
          newSquad, outcome, submitted, sent, received, result, raised,
          login_status, logins, remembered>>

----------------------------------------------------------------------------
(* Bounds and sample data *)

NumPlayers == 4     \* player ids are 1..NumPlayers
NumTypes == 2       \* position categories are 1..NumTypes
MaxSquad == 3       \* longest squad list given to the planner
MaxLogins == 2      \* how many times login may run in one behaviour

PlayerIds == 1..NumPlayers

\* The upstream player table: every id has one position category and prices.
ElementType(id) == (id % NumTypes) + 1
NowCost(id) == 50 + 5 * id
SellingPrice(id) == 40 + 3 * id

\* An entry of the transfers page's squad, and an entry of the player list.
Pick(id) == [element |-> id, selling_price |-> SellingPrice(id)]
Player(id) == [id |-> id, element_type |-> ElementType(id), now_cost |-> NowCost(id)]

RECURSIVE IdSeqs(_)
IdSeqs(n) ==
    IF n = 0 THEN {<<>>}
    ELSE IdSeqs(n - 1) \cup
         {Append(s, id) : s \in {t \in IdSeqs(n - 1) : Len(t) = n - 1}, id \in PlayerIds}

OldSquadOf(ids) == [i \in 1..Len(ids) |-> Pick(ids[i])]
NewSquadOf(ids) == [i \in 1..Len(ids) |-> Player(ids[i])]

OldSquads == {OldSquadOf(ids) : ids \in IdSeqs(MaxSquad)}
NewSquads == {NewSquadOf(ids) : ids \in IdSeqs(MaxSquad)}

\* The squads used where the session, not the planner, is under study.
SampleIds == {<<1, 2>>, <<1, 3>>, <<3, 4>>}
SampleOldSquads == {OldSquadOf(ids) : ids \in SampleIds}
SampleNewSquads == {NewSquadOf(ids) : ids \in SampleIds}

\* What the remote service may answer.
Statuses == {200, 400, 500}
EntryIds == {7, 12}
EventIds == {3, 4}
Deadlines == {"2018-08-10T18:00:00Z", "2018-08-18T10:30:00Z"}
DynamicData ==
    [next_event : EventIds, entry_id : EntryIds, deadline_time : Deadlines]

----------------------------------------------------------------------------
(* The constants module before login *)

Unset == 0
BaseSquadUrl == <<"SQUAD_URL">>

\* URLs are sequences of string pieces, so that SQUAD_URL can be appended to.
LOGIN_URL == <<"LOGIN_URL">>
FANTASY_URL == <<"FANTASY_URL">>
FANTASY_API_URL == <<"FANTASY_API_URL">>
FANTASY_API_DYNAMIC_URL == <<"FANTASY_API_DYNAMIC_URL">>
FANTASY_PLAYER_API_URL == <<"FANTASY_PLAYER_API_URL">>
TRANSFER_URL == <<"TRANSFER_URL">>
CLUB_ELO_URL == <<"CLUB_ELO_URL">>
TRANSFERS_PAGE == <<"https://fantasy.premierleague.com/a/squad/transfers">>

\* str() of a non-negative integer, one piece per decimal digit.
Digits == <<"0", "1", "2", "3", "4", "5", "6", "7", "8", "9">>
RECURSIVE str(_)
str(n) == IF n < 10 THEN <<Digits[n + 1]>>
          ELSE str(n \div 10) \o <<Digits[(n % 10) + 1]>>

----------------------------------------------------------------------------
(* create_transfers_object *)

NoObject == [confirmed |-> "", entry |-> Unset, event |-> Unset,
             transfers |-> <<>>, wildcard |-> ""]

new_squad_ids(new_squad) == [i \in 1..Len(new_squad) |-> new_squad[i].id]
old_squad_ids(old_squad) == [i \in 1..Len(old_squad) |-> old_squad[i].element]

\* x in a list
InList(x, list) == \E i \in 1..Len(list) : list[i] = x

players_in_all(old_squad, new_squad) == new_squad
players_in(old_squad, new_squad) ==
    LET keep(player) == ~InList(player.id, old_squad_ids(old_squad))
    IN  SelectSeq(new_squad, keep)

players_out(old_squad, new_squad) ==
    LET keep(player) == ~InList(player.element, new_squad_ids(new_squad))
    IN  SelectSeq(old_squad, keep)

\* sorted(list, key=element_type): a stable sort, by insertion from the left.
\* insort puts player after every entry whose key is not greater.
insort_before_equal(list, player) ==
    LET n == Cardinality({i \in 1..Len(list) :
                            list[i].element_type < player.element_type})
    IN  SubSeq(list, 1, n) \o <<player>> \o SubSeq(list, n + 1, Len(list))
insort(list, player) ==
    LET n == Cardinality({i \in 1..Len(list) :
                            list[i].element_type <= player.element_type})
    IN  SubSeq(list, 1, n) \o <<player>> \o SubSeq(list, n + 1, Len(list))

RECURSIVE sorted(_)
unsorted(list) == list
sorted(list) ==
    IF list = <<>> THEN <<>>
    ELSE insort(sorted(SubSeq(list, 1, Len(list) - 1)), list[Len(list)])

\* A loop over the shorter of the two lists: the bug of never raising.
RECURSIVE transfers_loop_min(_, _, _, _)
transfers_loop_min(i, ins, outs, transfers) ==
    IF i > Len(ins) \/ i > Len(outs) THEN [raised |-> "none", transfers |-> transfers]
    ELSE transfers_loop_min(i + 1, ins, outs,
            Append(transfers, [element_in |-> ins[i].id,
                               purchase_price |-> ins[i].now_cost,
                               element_out |-> outs[i].element,
                               selling_price |-> outs[i].selling_price]))

\* The loop of lines 131-137, from index i on (1-based): players_out[i]
\* raises IndexError when players_out is too short.
RECURSIVE transfers_loop(_, _, _, _)
transfers_loop(i, ins, outs, transfers) ==
    IF i > Len(ins) THEN [raised |-> "none", transfers |-> transfers]
    ELSE IF i > Len(outs) THEN [raised |-> "IndexError", transfers |-> <<>>]
    ELSE transfers_loop(i + 1, ins, outs,
            Append(transfers, [element_in |-> ins[i].id,
                               purchase_price |-> ins[i].now_cost,
                               element_out |-> outs[i].element,
                               selling_price |-> outs[i].selling_price]))

transfer_object_swapped(transfers) ==
    [confirmed |-> "true", entry |-> NEXT_EVENT, event |-> SQUAD_ID,
     transfers |-> transfers, wildcard |-> "false"]
transfer_object(transfers) ==
    [confirmed |-> "true", entry |-> SQUAD_ID, event |-> NEXT_EVENT,
     transfers |-> transfers, wildcard |-> "false"]

\* The value returned, or the exception raised.
create_transfers_object(old_squad, new_squad) ==
    LET ins == sorted(players_in(old_squad, new_squad))
        outs == players_out(old_squad, new_squad)
        loop == transfers_loop(1, ins, outs, <<>>)
    IN  IF loop.raised = "none"
        THEN [raised |-> "none", object |-> transfer_object(loop.transfers)]
        ELSE [raised |-> loop.raised, object |-> NoObject]

----------------------------------------------------------------------------
(* HTTP *)

Request(method, url, json) == [method |-> method, url |-> url, json |-> json]
Get(url) == Request("GET", url, NoObject)
\* A response remembers which request of the call it answers.
Response(status_code, n) == [status_code |-> status_code, reply_to |-> n]
\* requests.Response with status_code set to 200: no request stands behind it.
response_success == Response(200, 0)
NoResponse == Response(0, 0)

----------------------------------------------------------------------------
(* make_transfers and set_starting_lineup: the requests issued, the        *)
(* responses received and the value returned.  get_status and post_status  *)
(* are the status codes the remote service answers with.                   *)

\* A guard that is always true: the bug of posting empty plans too.
make_transfers_always(obj, get_status, post_status) ==
    [sent |-> <<Get(TRANSFERS_PAGE), Request("POST", TRANSFER_URL, obj)>>,
     received |-> <<Response(get_status, 1), Response(post_status, 2)>>,
     result |-> Response(post_status, 2)]
\* A second POST after a non-200 answer: the bug of retrying.
make_transfers_retry(obj, get_status, post_status) ==
    IF Len(obj.transfers) > 0
    THEN IF post_status # 200
         THEN [sent |-> <<Get(TRANSFERS_PAGE), Request("POST", TRANSFER_URL, obj),
                          Request("POST", TRANSFER_URL, obj)>>,
               received |-> <<Response(get_status, 1), Response(post_status, 2),
                              Response(post_status, 3)>>,
               result |-> Response(post_status, 3)]
         ELSE [sent |-> <<Get(TRANSFERS_PAGE), Request("POST", TRANSFER_URL, obj)>>,
               received |-> <<Response(get_status, 1), Response(post_status, 2)>>,
               result |-> Response(post_status, 2)]
    ELSE [sent |-> <<>>, received |-> <<>>, result |-> response_success]
make_transfers(obj, get_status, post_status) ==
    IF Len(obj.transfers) > 0
    THEN [sent |-> <<Get(TRANSFERS_PAGE), Request("POST", TRANSFER_URL, obj)>>,
          received |-> <<Response(get_status, 1), Response(post_status, 2)>>,
          result |-> Response(post_status, 2)]
    ELSE [sent |-> <<>>, received |-> <<>>, result |-> response_success]

\* The starting lineup is posted as it is given; its content is not read.
NoLineup == NoObject
set_starting_lineup(get_status, post_status) ==
    [sent |-> <<Get(SQUAD_URL), Request("POST", SQUAD_URL, NoLineup)>>,
     received |-> <<Response(get_status, 1), Response(post_status, 2)>>,
     result |-> Response(post_status, 2)]

----------------------------------------------------------------------------
(* The state at import, and one action per function *)

NoOutcome == [raised |-> "none", object |-> NoObject]
NoCall == [called |-> FALSE, old_squad |-> <<>>, new_squad |-> <<>>,
           outcome |-> NoOutcome, squad_id |-> Unset, next_event |-> Unset]

Init ==
    /\ SQUAD_ID = Unset
    /\ NEXT_EVENT = Unset
    /\ SQUAD_URL = BaseSquadUrl
    /\ TRANSFER_DEADLINE = ""
    /\ op = "import"
    /\ oldSquad = <<>>
    /\ newSquad = <<>>
    /\ outcome = NoOutcome
    /\ submitted = NoObject
    /\ sent = <<>>
    /\ received = <<>>
    /\ result = NoResponse
    /\ raised = "none"
    /\ login_status = 0
    /\ logins = 0
    /\ remembered = NoCall

\* login(username, password): post_status answers the login POST and
\* dynamic_data is the document the dynamic-data URL returns.
login(post_status, dynamic_data) ==
    /\ logins < MaxLogins
    /\ op' = "login"
    /\ login_status' = post_status
    /\ logins' = logins + 1
    /\ sent' = <<Get(LOGIN_URL), Request("POST", LOGIN_URL, NoObject),
                 Get(FANTASY_URL), Get(FANTASY_API_DYNAMIC_URL)>>
    /\ received' = <<Response(200, 1), Response(post_status, 2),
                     Response(200, 3), Response(200, 4)>>
    /\ NEXT_EVENT' = dynamic_data.next_event
    /\ SQUAD_ID' = dynamic_data.entry_id
    /\ SQUAD_URL' = SQUAD_URL \o str(dynamic_data.entry_id) \o <<"/">>
    /\ TRANSFER_DEADLINE' = dynamic_data.deadline_time
    /\ result' = NoResponse
    /\ raised' = "none"
    /\ oldSquad' = <<>> /\ newSquad' = <<>> /\ outcome' = NoOutcome
    /\ submitted' = NoObject
    /\ UNCHANGED remembered

Login == \E post_status \in Statuses, dynamic_data \in DynamicData :
            login(post_status, dynamic_data)

\* A call of create_transfers_object(old_squad, new_squad).
CreateCall(old_squad, new_squad) ==
    /\ op' = "create_transfers_object"
    /\ oldSquad' = old_squad
    /\ newSquad' = new_squad
    /\ outcome' = create_transfers_object(old_squad, new_squad)
    /\ raised' = outcome'.raised
    /\ sent' = <<>>
    /\ received' = <<>>
    /\ result' = NoResponse
    /\ submitted' = NoObject
    /\ login_status' = 0
    /\ UNCHANGED <<session, logins>>

CreateTransfersObject ==
    \E old_squad \in SampleOldSquads, new_squad \in SampleNewSquads :
        /\ CreateCall(old_squad, new_squad)
        /\ UNCHANGED remembered

\* The plans make_transfers is given: those create_transfers_object returns.
SamplePlans ==
    {create_transfers_object(pair[1], pair[2]).object :
        pair \in {p \in SampleOldSquads \X SampleNewSquads :
                    create_transfers_object(p[1], p[2]).raised = "none"}}

HttpCall(name, obj, effect) ==
    /\ op' = name
    /\ submitted' = obj
    /\ sent' = effect.sent
    /\ received' = effect.received
    /\ result' = effect.result
    /\ raised' = "none"
    /\ oldSquad' = <<>> /\ newSquad' = <<>> /\ outcome' = NoOutcome
    /\ login_status' = 0
    /\ UNCHANGED <<session, logins, remembered>>

MakeTransfers ==
    \E obj \in SamplePlans, get_status \in Statuses, post_status \in Statuses :
        HttpCall("make_transfers", obj, make_transfers(obj, get_status, post_status))

SetStartingLineup ==
    \E get_status \in Statuses, post_status \in Statuses :
        HttpCall("set_starting_lineup", NoObject,
                 set_starting_lineup(get_status, post_status))

\* get_deadline, get_transfers_squad and get_all_player_data: one GET through
\* the session each, whose JSON is handed back to the caller; nothing of the
\* module's state is written.
get_request(name) ==
    IF name = "get_deadline" THEN <<Get(FANTASY_API_DYNAMIC_URL)>>
    ELSE IF name = "get_transfers_squad" THEN <<Get(TRANSFER_URL)>>
    ELSE <<Get(FANTASY_API_URL)>>

GetNames == {"get_deadline", "get_transfers_squad", "get_all_player_data"}

GetData ==
    \E name \in GetNames :
        HttpCall(name, NoObject,
                 [sent |-> get_request(name),
                  received |-> <<Response(200, 1)>>,
                  result |-> NoResponse])

\* The days get_club_elo_ratings may run on (datetime.datetime.now()).
Today == {[year |-> 2018, month |-> 8, day |-> 10],
          [year |-> 2026, month |-> 10, day |-> 31]}

\* strftime('%Y-%m-%d'): the year, then month and day in two digits each.
two_digits(n) == <<Digits[(n \div 10) + 1], Digits[(n % 10) + 1]>>
strftime(date) ==
    str(date.year) \o <<"-">> \o two_digits(date.month) \o <<"-">>
                   \o two_digits(date.day)

\* get_club_elo_ratings: the team data through the session, then the Elo
\* table of the day, opened with urllib.request.urlopen and not the session.
get_club_elo_ratings(date) ==
    [sent |-> <<Get(FANTASY_API_URL),
                Request("urlopen", CLUB_ELO_URL \o strftime(date), NoObject)>>,
     received |-> <<Response(200, 1), Response(200, 2)>>,
     result |-> NoResponse]

GetClubEloRatings ==
    \E date \in Today :
        HttpCall("get_club_elo_ratings", NoObject, get_club_elo_ratings(date))

GetPlayerFixtures ==
    \E player_id \in PlayerIds :
        HttpCall("get_player_fixtures", NoObject,
                 [sent |-> <<Get(FANTASY_PLAYER_API_URL \o str(player_id))>>,
                  received |-> <<Response(200, 1)>>,
                  result |-> NoResponse])

Next ==
    \/ Login
    \/ CreateTransfersObject
    \/ MakeTransfers
    \/ SetStartingLineup
    \/ GetData
    \/ GetPlayerFixtures
    \/ GetClubEloRatings

Spec == Init /\ [][Next]_vars

----------------------------------------------------------------------------
(* The planner alone: the squads are drawn at the start, the session is     *)
(* the one a login leaves, and create_transfers_object runs once.           *)

PlanSession == [next_event |-> 3, entry_id |-> 7,
                deadline_time |-> "2018-08-10T18:00:00Z"]

InitPlan ==
    /\ SQUAD_ID = PlanSession.entry_id
    /\ NEXT_EVENT = PlanSession.next_event
    /\ SQUAD_URL = BaseSquadUrl \o str(PlanSession.entry_id) \o <<"/">>
    /\ TRANSFER_DEADLINE = PlanSession.deadline_time
    /\ op = "login"
    /\ oldSquad \in OldSquads
    /\ newSquad \in NewSquads
    /\ outcome = NoOutcome
    /\ submitted = NoObject
    /\ sent = <<>>
    /\ received = <<>>
    /\ result = NoResponse
    /\ raised = "none"
    /\ login_status = 200
    /\ logins = 1
    /\ remembered = NoCall

PlanCall ==
    /\ op = "login"
    /\ CreateCall(oldSquad, newSquad)
    /\ UNCHANGED remembered

NextPlan == PlanCall

SpecPlan == InitPlan /\ [][NextPlan]_vars

----------------------------------------------------------------------------
(* Repeated planning: create_transfers_object is called again and again     *)
(* with logins in between, and any one earlier call may be kept in          *)
(* remembered to be compared with the latest.                               *)

ThisCall == [called |-> TRUE, old_squad |-> oldSquad', new_squad |-> newSquad',
             outcome |-> outcome', squad_id |-> SQUAD_ID,
             next_event |-> NEXT_EVENT]

CreateAndRemember ==
    \E old_squad \in SampleOldSquads, new_squad \in SampleNewSquads :
        /\ CreateCall(old_squad, new_squad)
        /\ remembered' \in {remembered, ThisCall}

NextRepeat ==
    \/ Login
    \/ CreateAndRemember

SpecRepeat == Init /\ [][NextRepeat]_vars

----------------------------------------------------------------------------
(* What the claims speak of, stated apart from the code's own computation  *)

Called == op = "create_transfers_object"
Returned == Called /\ outcome.raised = "none"
Transfers == outcome.object.transfers

OldIds == {oldSquad[i].element : i \in 1..Len(oldSquad)}
NewIds == {newSquad[i].id : i \in 1..Len(newSquad)}

IsIncoming(player) == player.id \notin OldIds
IsOutgoing(player) == player.element \notin NewIds
\* new_squad entries whose id is not among old_squad's, in new_squad order
Incoming == SelectSeq(newSquad, IsIncoming)
\* old_squad entries whose element is not among new_squad's, in old_squad order
Outgoing == SelectSeq(oldSquad, IsOutgoing)

NoRepeat(list) == \A i, j \in 1..Len(list) : i # j => list[i] # list[j]
ElementsIn == [i \in 1..Len(Transfers) |-> Transfers[i].element_in]
ElementsOut == [i \in 1..Len(Transfers) |-> Transfers[i].element_out]
Range(list) == {list[i] : i \in 1..Len(list)}
Min(a, b) == IF a <= b THEN a ELSE b

\* The entries of list whose position category is t, in the order of list.
OfType(list, t) ==
    LET is_t(player) == player.element_type = t
    IN  SelectSeq(list, is_t)
\* Ascending by position category, ties in input order: category after category.
RECURSIVE ByTypeUpTo(_, _)
ByTypeUpTo(list, t) ==
    IF t = 0 THEN <<>> ELSE ByTypeUpTo(list, t - 1) \o OfType(list, t)
ByType(list) == ByTypeUpTo(list, NumTypes)

\* The i-th transfer is built from the i-th of ins and the i-th of Outgoing.
PairedByIndex(ins) ==
    \A i \in 1..Len(Transfers) :
        /\ i <= Len(ins) /\ i <= Len(Outgoing)
        /\ Transfers[i].element_in = ins[i].id
        /\ Transfers[i].purchase_price = ins[i].now_cost
        /\ Transfers[i].element_out = Outgoing[i].element
        /\ Transfers[i].selling_price = Outgoing[i].selling_price

OutgoingAscending ==
    \A i, j \in 1..Len(Outgoing) :
        i < j => ElementType(Outgoing[i].element) <= ElementType(Outgoing[j].element)

\* As many players of each position category come in as go out.
BalancedByType ==
    \A t \in 1..NumTypes :
        Cardinality({i \in 1..Len(Incoming) : Incoming[i].element_type = t})
        = Cardinality({i \in 1..Len(Outgoing) : ElementType(Outgoing[i].element) = t})

SamePosition ==
    \A i \in 1..Len(Transfers) :
        ElementType(Transfers[i].element_in) = ElementType(Transfers[i].element_out)

----------------------------------------------------------------------------
(* Claims about create_transfers_object, checked under SpecPlan *)

\* C1 as stated: whenever k players come in and k go out, the call returns
\* exactly k transfers, no two with the same element_in, no two with the same
\* element_out, and the element_in values are the incoming players' ids.
C1_AsStated ==
    (Called /\ Len(Incoming) = Len(Outgoing)) =>
        /\ outcome.raised = "none"
        /\ Len(Transfers) = Len(Incoming)
        /\ NoRepeat(ElementsIn)
        /\ NoRepeat(ElementsOut)
        /\ Range(ElementsIn) = {Incoming[i].id : i \in 1..Len(Incoming)}

\* C1 amended: the same, for squads in which no player is listed twice
\* (no id twice in new_squad, no element twice in old_squad).
C1_UniqueTransfers ==
    (/\ Called
     /\ NoRepeat(old_squad_ids(oldSquad))
     /\ NoRepeat(new_squad_ids(newSquad))
     /\ Len(Incoming) = Len(Outgoing)) =>
        /\ outcome.raised = "none"
        /\ Len(Transfers) = Len(Incoming)
        /\ NoRepeat(ElementsIn)
        /\ NoRepeat(ElementsOut)
        /\ Range(ElementsIn) = {Incoming[i].id : i \in 1..Len(Incoming)}

C1_Witness ==
    /\ Returned
    /\ NoRepeat(old_squad_ids(oldSquad))
    /\ NoRepeat(new_squad_ids(newSquad))
    /\ Len(Incoming) = 2
    /\ Len(Outgoing) = 2
    /\ Len(Transfers) = 2

\* C2: whenever the numbers of incoming and outgoing players differ, in
\* either direction, the call fails with an error and returns no plan.
C2_MismatchRaises ==
    (Called /\ Len(Incoming) # Len(Outgoing)) =>
        (outcome.raised # "none" /\ outcome.object = NoObject)

\* C6 as stated: when the outgoing players are in ascending order of
\* position category, every transfer pairs two players of one category.
C6_AsStated ==
    (Returned /\ OutgoingAscending) => SamePosition

\* C6 amended: the same, when in addition as many players of each position
\* category come in as go out.
C6_SamePosition ==
    (Returned /\ OutgoingAscending /\ BalancedByType) => SamePosition

C6_Witness ==
    /\ Returned
    /\ OutgoingAscending
    /\ BalancedByType
    /\ Len(Transfers) = 2
    /\ ElementType(Transfers[1].element_in) # ElementType(Transfers[2].element_in)
    /\ Incoming[1].id = Transfers[2].element_in

\* C7 as stated: when the numbers of incoming and outgoing players differ,
\* the call returns a plan of min(incoming, outgoing) transfers that pairs
\* the first players of the two lists by index.
C7_AsStated ==
    (Called /\ Len(Incoming) # Len(Outgoing)) =>
        /\ outcome.raised = "none"
        /\ Len(Transfers) = Min(Len(Incoming), Len(Outgoing))
        /\ PairedByIndex(ByType(Incoming))

\* C7 amended: with fewer incoming than outgoing players the call returns a
\* plan of as many transfers as there are incoming players, paired by index
\* with the first outgoing players; with more incoming than outgoing players
\* it raises IndexError and returns no plan.
C7_TruncatesOrRaises ==
    /\ (Called /\ Len(Incoming) < Len(Outgoing)) =>
          /\ outcome.raised = "none"
          /\ Len(Transfers) = Len(Incoming)
          /\ PairedByIndex(ByType(Incoming))
    /\ (Called /\ Len(Incoming) > Len(Outgoing)) =>
          /\ outcome.raised = "IndexError"
          /\ outcome.object = NoObject

C7_Witness ==
    \/ /\ Returned
       /\ Len(Incoming) = 1
       /\ Len(Outgoing) = 3
       /\ Len(Transfers) = 1
    \/ /\ Called
       /\ Len(Incoming) = 3
       /\ Len(Outgoing) = 1
       /\ outcome.raised = "IndexError"

\* C8: in a returned plan the element_in values are in ascending order of
\* position category, players of one category in their new_squad order, and
\* the i-th transfer takes element_in and purchase_price from the i-th
\* player of that order and element_out and selling_price from the i-th
\* outgoing player in old_squad order.
C8_SortedStablePairs ==
    Returned =>
        /\ Len(Transfers) = Len(Incoming)
        /\ \A i, j \in 1..Len(Transfers) :
              i < j => ElementType(ElementsIn[i]) <= ElementType(ElementsIn[j])
        /\ \A t \in 1..NumTypes :
              LET is_t(id) == ElementType(id) = t
              IN  SelectSeq(ElementsIn, is_t) = new_squad_ids(OfType(Incoming, t))
        /\ PairedByIndex(ByType(Incoming))

C8_Witness ==
    /\ Returned
    /\ NoRepeat(old_squad_ids(oldSquad))
    /\ NoRepeat(new_squad_ids(newSquad))
    /\ Len(Transfers) = 2
    /\ Len(Outgoing) = 2
    /\ ElementsIn # new_squad_ids(Incoming)

----------------------------------------------------------------------------
(* Claims about make_transfers and login, checked under Spec *)

Posts == {i \in 1..Len(sent) : sent[i].method = "POST"}

\* C3: given an empty transfers list, make_transfers issues no HTTP request
\* (no GET, no POST) and returns a result whose status code is 200.
C3_EmptyIsNoOp ==
    (op = "make_transfers" /\ submitted.transfers = <<>>) =>
        (sent = <<>> /\ received = <<>> /\ result.status_code = 200)

C3_Witness ==
    /\ op = "make_transfers"
    /\ submitted.transfers = <<>>
    /\ submitted.entry \in EntryIds
    /\ result.status_code = 200

\* C4: given a non-empty transfers list, make_transfers sends the whole plan
\* in exactly one POST to the transfer URL, and returns the response to that
\* POST whatever its status: a non-200 answer is not followed by another POST.
C4_OnePostNoRetry ==
    (op = "make_transfers" /\ submitted.transfers # <<>>) =>
        /\ Cardinality(Posts) = 1
        /\ \A i \in Posts :
              /\ sent[i].url = TRANSFER_URL
              /\ sent[i].json = submitted
              /\ result = received[i]
              /\ i = Len(sent)

C4_Witness ==
    /\ op = "make_transfers"
    /\ Len(submitted.transfers) = 2
    /\ result.status_code = 500
    /\ Cardinality(Posts) = 1

\* C9: after one or more logins the squad URL is the base squad URL followed
\* by the squad id of the latest login and one "/", and no function other
\* than login changes the squad id, next event, squad URL or deadline.
C9_SessionSetOnce ==
    [][/\ (logins' >= 1 => SQUAD_URL' = BaseSquadUrl \o str(SQUAD_ID') \o <<"/">>)
       /\ (op' # "login" => session' = session)]_vars

\* C10: when the login POST answers with a non-200 status, login reports an
\* authentication error and stops: it does not fetch the dynamic data and
\* sets none of squad id, next event, squad URL and deadline.
C10_FailedLoginStops ==
    [][(op' = "login" /\ login_status' # 200) =>
          /\ raised' # "none"
          /\ \A i \in 1..Len(sent') : sent'[i].url # FANTASY_API_DYNAMIC_URL
          /\ session' = session]_vars

----------------------------------------------------------------------------
(* Claim about repeated calls, checked under SpecRepeat *)

SameArguments ==
    /\ Called
    /\ remembered.called
    /\ remembered.old_squad = oldSquad
    /\ remembered.new_squad = newSquad

\* C5 as stated: two calls with the same old_squad and new_squad return the
\* same transfer object (entry, event, confirmed, wildcard and transfers),
\* whatever ran before or between them; taken here for two calls that both
\* follow a login.
C5_AsStated ==
    (SameArguments /\ remembered.squad_id \in EntryIds) =>
        remembered.outcome = outcome

\* C5 amended: two calls with the same old_squad and new_squad return objects
\* with the same confirmed, wildcard and transfers; entry and event are the
\* squad id and next event that the session holds when each call is made, so
\* the objects are the same whenever no login changed those two in between.
C5_SameUpToSession ==
    SameArguments =>
        /\ remembered.outcome.raised = outcome.raised
        /\ remembered.outcome.object.transfers = outcome.object.transfers
        /\ remembered.outcome.object.confirmed = outcome.object.confirmed
        /\ remembered.outcome.object.wildcard = outcome.object.wildcard
        /\ outcome.object.entry = SQUAD_ID
        /\ outcome.object.event = NEXT_EVENT
        /\ remembered.outcome.object.entry = remembered.squad_id
        /\ remembered.outcome.object.event = remembered.next_event
        /\ (remembered.squad_id = SQUAD_ID /\ remembered.next_event = NEXT_EVENT)
              => remembered.outcome = outcome

C5_Witness ==
    /\ SameArguments
    /\ outcome.object.transfers # <<>>
    /\ remembered.squad_id \in EntryIds
    /\ remembered.squad_id # SQUAD_ID
    /\ remembered.outcome # outcome

====
